---------------------------- MODULE Spec2Model ----------------------------
(***************************************************************************)
(* A model of src/MDP/mdp.py: class MDP with policy_evaluation,            *)
(* value_iteration, policy_iteration, step and q_learning.                 *)
(*                                                                         *)
(* Numbers.  Python floats are modelled in fixed point: a value v stands   *)
(* for the real v / Scale, a probability p for p / PDen and gamma for      *)
(* gamma / GDen.  One backup  sum(prob * (R + gamma * V[s']))  is computed *)
(* exactly in integers and rounded down once to a multiple of 1 / Scale.   *)
(*                                                                         *)
(* Objects.  Every dict the code creates ({...} comprehensions) is a cell  *)
(* of `heap`; local names hold references (cell numbers, 0 for unbound).   *)
(***************************************************************************)
EXTENDS Integers, Sequences, FiniteSets, TLC

VARIABLES
    mdp,        \* the fields of the MDP object (self.states, self.P, ...)
    pc,         \* position of the running call
    call,       \* the public method the caller invoked, "none" when idle
    heap,       \* the dict objects: V, policy and Q tables
    Vref,       \* local V of the running policy_evaluation/value_iteration
    polRef,     \* local policy
    piV,        \* local V of policy_iteration
    Qref,       \* local Q of q_learning
    idx,        \* position of the running `for s in self.states` loop
    delta,      \* local delta of the running sweep
    policy_stable, \* local policy_stable of policy_iteration
    sweeps,     \* sweeps completed by the running evaluation loop
    rounds,     \* improvement rounds completed by policy_iteration
    hist,       \* (policy, V) of every completed evaluation of policy_iteration
    state,      \* local state of q_learning's episode
    episode,    \* episodes left in q_learning
    qsteps,     \* steps taken by the running q_learning call
    epsilon,    \* argument epsilon of the running q_learning call
    action,     \* local action of q_learning
    exc,        \* exception that ended the call, "none" otherwise
    ret,        \* what the last finished call returned
    kept,       \* references to an earlier result the caller still holds
    fsm,        \* the fields of the FSM object of FinitStateMachine.py
    lastTrigger, \* event, guard result and callbacks run by the last FSM call
    bt,         \* the fields of the Sequence object of BehaviorTrees.py
    lastTick,   \* children ticked and status returned by the last tick()
    stree,      \* the fields of the StateTree object of StateTrees.py
    lastUpdate  \* what the last StateTree call ran: tasks, transitions, callbacks

\* the variables of mdp.py
mdpVars == <<mdp, pc, call, heap, Vref, polRef, piV, Qref, idx, delta, policy_stable,
             sweeps, rounds, hist, state, episode, qsteps, epsilon, action, exc, ret, kept>>

\* the variables of the other scripts
scripts == <<fsm, lastTrigger, bt, lastTick, stree, lastUpdate>>

vars == <<mdpVars, scripts>>

-----------------------------------------------------------------------------
(* Bounds of the model *)

\* decimal digits of the fixed-point resolution
ScaleDigits == 5
\* the convergence threshold theta, in units of 1 / Scale
Theta == 100
\* cells of the heap
MaxObjs == 6
\* cap on the sweeps of one evaluation loop
MaxSweeps == 60
\* cap on the improvement rounds of one policy_iteration call
MaxRounds == 8
\* cap on the episodes argument of q_learning
MaxEpisodes == 1
\* cap on the steps of one q_learning call
MaxQSteps == 2
\* children of a behaviour-tree Sequence
MaxChildren == 3

Scale == 10 ^ ScaleDigits
PDen == 10
GDen == 10
\* epsilon = 0.1 = 1 / EDen
EDen == 10
\* alpha = 0.1 = AlphaNum / ADen
AlphaNum == 1
ADen == 10

None == "None"

-----------------------------------------------------------------------------
(* Arguments of MDP(...) the caller may pass *)

S3 == <<"s0", "s1", "s2">>
A2 == <<"a0", "a1">>
Absorb == [a \in {"a0", "a1"} |-> <<<<10, "s2">>>>]
Zero2 == [a \in {"a0", "a1"} |-> 0]

\* main(): the three-state example
ExampleP ==
    [s \in {"s0", "s1", "s2"} |->
        CASE s = "s0" -> [a \in {"a0", "a1"} |->
                            IF a = "a0" THEN <<<<8, "s0">>, <<2, "s1">>>>
                                        ELSE <<<<5, "s1">>, <<5, "s2">>>>]
          [] s = "s1" -> [a \in {"a0", "a1"} |->
                            IF a = "a0" THEN <<<<10, "s0">>>>
                                        ELSE <<<<10, "s2">>>>]
          [] OTHER    -> Absorb]

ExampleR ==
    [s \in {"s0", "s1", "s2"} |->
        CASE s = "s0" -> [a \in {"a0", "a1"} |-> IF a = "a1" THEN 1 * Scale ELSE 0]
          [] s = "s1" -> [a \in {"a0", "a1"} |-> IF a = "a1" THEN 2 * Scale ELSE 0]
          [] OTHER    -> Zero2]

Example ==
    [states |-> S3, actions |-> A2, P |-> ExampleP, R |-> ExampleR,
     gamma |-> 9, terminal_states |-> {"s2"}]


\* s0 may loop on itself for reward 1 or leave for s2 with reward 1 / (1 - gamma);
\* the terminal state s2 has a reward and a way out in its tables
TieP ==
    [s \in {"s0", "s1", "s2"} |->
        CASE s = "s0" -> [a \in {"a0", "a1"} |->
                            IF a = "a0" THEN <<<<10, "s0">>>>
                                        ELSE <<<<10, "s2">>>>]
          [] s = "s1" -> Absorb
          [] OTHER    -> [a \in {"a0", "a1"} |->
                            IF a = "a0" THEN <<<<10, "s0">>>>
                                        ELSE <<<<10, "s2">>>>]]

TieR ==
    [s \in {"s0", "s1", "s2"} |->
        CASE s = "s0" -> [a \in {"a0", "a1"} |-> IF a = "a0" THEN 1 * Scale ELSE 2 * Scale]
          [] s = "s1" -> Zero2
          [] OTHER    -> [a \in {"a0", "a1"} |-> 3 * Scale]]

Tie ==
    [states |-> S3, actions |-> A2, P |-> TieP, R |-> TieR,
     gamma |-> 5, terminal_states |-> {"s2"}]

\* Tie with the loop at s0 worth a little more than leaving: evaluation of the
\* loop stops a little below the value of leaving; P(s1, a0) also lists s0,
\* with probability 0
SlowLoop ==
    [Tie EXCEPT !.R["s0"]["a0"] = Scale + Theta \div 3,
                !.P["s1"]["a0"] = <<<<10, "s2">>, <<0, "s0">>>>]

\* s1 loops on itself towards the value 2; from s0, going to s1 is worth 1 and
\* leaving for s2 is worth a little less than 1
NearTieP ==
    [s \in {"s0", "s1", "s2"} |->
        CASE s = "s0" -> [a \in {"a0", "a1"} |->
                            IF a = "a0" THEN <<<<10, "s1">>>>
                                        ELSE <<<<10, "s2">>>>]
          [] s = "s1" -> [a \in {"a0", "a1"} |->
                            IF a = "a0" THEN <<<<10, "s1">>>>
                                        ELSE <<<<10, "s2">>>>]
          [] OTHER    -> Absorb]

NearTieR ==
    [s \in {"s0", "s1", "s2"} |->
        CASE s = "s0" -> [a \in {"a0", "a1"} |->
                            IF a = "a0" THEN 0 ELSE Scale - (2 * Theta) \div 5]
          [] s = "s1" -> [a \in {"a0", "a1"} |->
                            IF a = "a0" THEN Scale ELSE (14 * Scale) \div 10]
          [] OTHER    -> Zero2]

NearTie ==
    [states |-> S3, actions |-> A2, P |-> NearTieP, R |-> NearTieR,
     gamma |-> 5, terminal_states |-> {"s2"}]

\* the example with P(s0, a0) summing to 0.9
SumNine ==
    [Example EXCEPT !.P["s0"]["a0"] = <<<<7, "s0">>, <<2, "s1">>>>]

\* the example with a successor that is no state
UnknownSucc ==
    [Example EXCEPT !.P["s1"]["a0"] = <<<<10, "s9">>>>]

NoActions ==
    [states |-> S3, actions |-> <<>>,
     P |-> [s \in {"s0", "s1", "s2"} |-> <<>>],
     R |-> [s \in {"s0", "s1", "s2"} |-> <<>>],
     gamma |-> 9, terminal_states |-> {"s2"}]

NoStates ==
    [states |-> <<>>, actions |-> A2, P |-> <<>>, R |-> <<>>,
     gamma |-> 9, terminal_states |-> {}]

\* one state that every action leads back to, and no terminal state (the
\* default of terminal_states)
LoneP == [s \in {"s0"} |-> [a \in {"a0", "a1"} |-> <<<<10, "s0">>>>]]

LoneR == [s \in {"s0"} |-> [a \in {"a0", "a1"} |-> IF a = "a0" THEN 0 ELSE Scale]]

Lone ==
    [states |-> <<"s0">>, actions |-> A2, P |-> LoneP, R |-> LoneR,
     gamma |-> 5, terminal_states |-> {}]

\* the same with its only state terminal
AllTerminal == [Lone EXCEPT !.terminal_states = {"s0"}]

\* the same with gamma = 1 and a reward of theta for a1: every sweep for a1
\* changes V(s0) by theta
Undiscounted ==
    [Lone EXCEPT !.gamma = GDen,
                 !.R = [s \in {"s0"} |-> [a \in {"a0", "a1"} |->
                                            IF a = "a0" THEN 0 ELSE Theta]]]

\* Tie with costs for rewards: looping at s0 costs 1 a step, 2 in the limit,
\* and leaving costs a little less than 2; evaluation of the loop stops a
\* little above -2. At s1, a1 is worth 1 more than a0
CostlyLoop ==
    [Tie EXCEPT !.R["s0"] = [a \in {"a0", "a1"} |->
                                IF a = "a0" THEN -Scale
                                            ELSE Theta \div 5 - 2 * Scale],
                !.R["s1"] = [a \in {"a0", "a1"} |->
                                IF a = "a0" THEN 0 ELSE Scale]]

Models ==
    {Example, Tie, SlowLoop, NearTie, CostlyLoop, Lone, AllTerminal,
     Undiscounted, SumNine, UnknownSucc, NoActions, NoStates}

-----------------------------------------------------------------------------
(* Helpers *)

Range(seq) == {seq[k] : k \in 1..Len(seq)}

Abs(x) == IF x < 0 THEN -x ELSE x

\* the last change in place of the largest
Max2Second(x, y) == y

Max2(x, y) == IF x < y THEN y ELSE x

\* [s for s in self.states if s not in self.terminal_states]
NonTerminal(m) == SelectSeq(m.states, LAMBDA s : s \notin m.terminal_states)

\* every (state, action) list of P sums to 1
RECURSIVE SumProbs(_, _)
SumProbs(trans, k) == IF k = 0 THEN 0 ELSE SumProbs(trans, k - 1) + trans[k][1]

ProbsSumToOne(m) ==
    \A s \in Range(m.states) : \A a \in Range(m.actions) :
        SumProbs(m.P[s][a], Len(m.P[s][a])) = PDen

SuccessorsKnown(m) ==
    \A s \in Range(m.states) : \A a \in Range(m.actions) :
        \A k \in 1..Len(m.P[s][a]) : m.P[s][a][k][2] \in Range(m.states)

NonEmpty(m) == m.states # <<>> /\ m.actions # <<>>

WellFormed(m) == NonEmpty(m) /\ ProbsSumToOne(m) /\ SuccessorsKnown(m)

\* the one-step lookahead sum(prob * (R[s][a] + gamma * V[next_state]) ...),
\* as a numerator over PDen * GDen
RECURSIVE SumTrans(_, _, _, _, _)
SumTrans(m, s, a, V, k) ==
    IF k = 0 THEN 0
    ELSE SumTrans(m, s, a, V, k - 1)
         + m.P[s][a][k][1] * (m.R[s][a] * GDen + m.gamma * V[m.P[s][a][k][2]])

Lookahead(m, s, a, V) == SumTrans(m, s, a, V, Len(m.P[s][a])) \div (PDen * GDen)

\* no state is passed over
SkippedNever(m, s) == FALSE

\* lines 18-19, 34-35, 65-66: terminal states are passed over
Skipped(m, s) == s \in m.terminal_states

\* the backup with gamma left out
PolicyBackupUndiscounted(m, s, a, V) == Lookahead([m EXCEPT !.gamma = GDen], s, a, V)

\* lines 21-22: the new value of s under action a
PolicyBackup(m, s, a, V) == Lookahead(m, s, a, V)

\* self.P[s][a] or V[next_state] raises KeyError
LookupFails(m, s, a, V) ==
    \/ a \notin DOMAIN m.P[s]
    \/ \E k \in 1..Len(m.P[s][a]) : m.P[s][a][k][2] \notin DOMAIN V

\* min in place of max
BestActionMin(m, s, V) ==
    LET n == Len(m.actions)
        q(k) == Lookahead(m, s, m.actions[k], V)
        best == CHOOSE k \in 1..n :
                    /\ \A j \in 1..n : q(k) <= q(j)
                    /\ \A j \in 1..(k - 1) : q(k) < q(j)
    IN  m.actions[best]

\* the last action that attains the maximum
BestActionLast(m, s, V) ==
    LET n == Len(m.actions)
        q(k) == Lookahead(m, s, m.actions[k], V)
        best == CHOOSE k \in 1..n :
                    /\ \A j \in 1..n : q(j) <= q(k)
                    /\ \A j \in (k + 1)..n : q(j) < q(k)
    IN  m.actions[best]

\* max(self.actions, key=...): the first action that attains the maximum
BestAction(m, s, V) ==
    LET n == Len(m.actions)
        q(k) == Lookahead(m, s, m.actions[k], V)
        best == CHOOSE k \in 1..n :
                    /\ \A j \in 1..n : q(j) <= q(k)
                    /\ \A j \in 1..(k - 1) : q(j) < q(k)
    IN  m.actions[best]

\* the lookahead of the first action in place of the maximum
BellmanBackupFirst(m, s, V) == Lookahead(m, s, m.actions[1], V)

\* lines 36-40: the new value of s, the maximum over the actions
BellmanBackup(m, s, V) == Lookahead(m, s, BestAction(m, s, V), V)

\* any complete policy: an action for every non-terminal state, None for the rest
Policies(m) ==
    {p \in [Range(m.states) -> Range(m.actions) \cup {None}] :
        \A s \in Range(m.states) : (p[s] = None) <=> (s \in m.terminal_states)}

-----------------------------------------------------------------------------
(* The heap of dict objects *)

FreeCell == [kind |-> "free", val |-> <<>>]

Cells == 1..MaxObjs

HasFree(h, n) == Cardinality({c \in Cells : h[c].kind = "free"}) >= n

\* a new dict: the first free cell
Alloc(h) == CHOOSE c \in Cells : h[c].kind = "free" /\ \A d \in 1..(c - 1) : h[d].kind # "free"

\* cells no name refers to any more are reclaimed
Collect(h, roots) == [c \in Cells |-> IF c \in roots THEN h[c] ELSE FreeCell]

NoRet ==
    [of |-> "none", V |-> 0, policy |-> 0, Q |-> 0,
     state |-> None, action |-> None, next_state |-> None, reward |-> 0]

NoKept == [of |-> "none", V |-> 0, policy |-> 0, Q |-> 0]

Refs(r) == {r.V, r.policy, r.Q} \ {0}

-----------------------------------------------------------------------------
(* Construction *)

-----------------------------------------------------------------------------
(* FinitStateMachine.py: the tables a caller passes to FSM() *)

\* a dict without keys
EmptyDict == [k \in {} |-> <<>>]

\* what transitions.get(state, {}).get(event, None) gives when there is no
\* entry; like an empty tuple, it is false in `if transition:`
NoTransition == <<>>

\* main's transitions: state -> event -> <<next_state, guard>>
ExampleTransitions ==
    [s \in {"Idle", "Running", "Paused", "Stopped"} |->
        CASE s = "Idle"    -> [e \in {"start"} |-> <<"Running", None>>]
          [] s = "Running" -> [e \in {"pause", "stop"} |->
                                IF e = "pause" THEN <<"Paused", None>>
                                               ELSE <<"Stopped", None>>]
          [] s = "Paused"  -> [e \in {"resume", "stop"} |->
                                IF e = "resume" THEN <<"Running", "can_resume">>
                                                ELSE <<"Stopped", None>>]
          [] OTHER         -> EmptyDict]

\* main's actions: the states with an on_enter and an on_exit callback
ExampleActions == [on_enter |-> {"Running"}, on_exit |-> {"Running"}]

ExampleFSM ==
    [initial_state |-> "Idle", transitions |-> ExampleTransitions,
     actions |-> ExampleActions]

\* two states with callbacks on both; On has a transition to itself, Off has
\* an entry that is an empty tuple, and the state Broken has no row
LampTransitions ==
    [s \in {"Off", "On"} |->
        IF s = "Off"
        THEN [e \in {"start", "stop", "pause"} |->
                CASE e = "start" -> <<"On", "can_resume">>
                  [] e = "stop"  -> <<"Broken", None>>
                  [] OTHER       -> NoTransition]
        ELSE [e \in {"start", "stop"} |->
                IF e = "start" THEN <<"On", None>> ELSE <<"Off", "can_resume">>]]

LampActions ==
    [on_enter |-> {"Off", "On", "Broken"}, on_exit |-> {"Off", "On", "Broken"}]

Lamp ==
    [initial_state |-> "Off", transitions |-> LampTransitions,
     actions |-> LampActions]

\* the example without the actions argument
Silent == [ExampleFSM EXCEPT !.actions = EmptyDict]

Machines == {ExampleFSM, Lamp, Silent}

Events == {"start", "pause", "resume", "stop"}

NoFSM == [current_state |-> None, transitions |-> EmptyDict, actions |-> EmptyDict]

NoTrigger == [event |-> None, guard |-> None, calls |-> <<>>]

\* actions or {"on_enter": {}, "on_exit": {}}
OrNoActions(a) ==
    IF DOMAIN a = {} THEN [on_enter |-> {}, on_exit |-> {}] ELSE a

\* _trigger_action: the callback, when there is one, is called; it is
\* recorded with the current_state it finds
TriggerAction(f, action_type, s) ==
    IF action_type \in DOMAIN f.actions /\ s \in f.actions[action_type]
    THEN <<[type |-> action_type, state |-> s, saw |-> f.current_state]>>
    ELSE <<>>

\* on_enter is called before current_state is assigned
TriggerEnterEarly(f, event, g) ==
    LET row == IF f.current_state \in DOMAIN f.transitions
               THEN f.transitions[f.current_state] ELSE EmptyDict
        transition == IF event \in DOMAIN row THEN row[event] ELSE NoTransition
    IN  IF transition # NoTransition /\ (transition[2] = None \/ g)
        THEN [fsm |-> [f EXCEPT !.current_state = transition[1]],
              calls |-> TriggerAction(f, "on_exit", f.current_state)
                        \o TriggerAction(f, "on_enter", transition[1]),
              guard |-> IF transition[2] = None THEN None
                        ELSE IF g THEN "true" ELSE "false"]
        ELSE [fsm |-> f, calls |-> <<>>,
              guard |-> IF transition = NoTransition \/ transition[2] = None
                        THEN None ELSE "false"]

\* trigger(event), g being what the guard returns when it is called
Trigger(f, event, g) ==
    LET state_transitions == IF f.current_state \in DOMAIN f.transitions
                             THEN f.transitions[f.current_state] ELSE EmptyDict
        transition == IF event \in DOMAIN state_transitions
                      THEN state_transitions[event] ELSE NoTransition
    IN  IF transition # NoTransition
        THEN LET next_state == transition[1]
                 guard == transition[2]
                 moved == [f EXCEPT !.current_state = next_state]
             IN  IF guard = None \/ g
                 THEN [fsm |-> moved,
                       calls |-> TriggerAction(f, "on_exit", f.current_state)
                                 \o TriggerAction(moved, "on_enter", next_state),
                       guard |-> IF guard = None THEN None ELSE "true"]
                 ELSE [fsm |-> f, calls |-> <<>>, guard |-> "false"]
        ELSE [fsm |-> f, calls |-> <<>>, guard |-> None]

-----------------------------------------------------------------------------
(* BehaviorTrees.py: Status and Sequence *)

SUCCESS == 1
FAILURE == 2
RUNNING == 3

Statuses == {SUCCESS, FAILURE, RUNNING}

\* Sequence(children) for 0..MaxChildren children; the children are nodes
\* whose tick returns any status
Sequences == {[children |-> [i \in 0..(n - 1) |-> i], current |-> 0] : n \in 0..MaxChildren}

NoSequence == [children |-> EmptyDict, current |-> -1]

\* no tick yet: 0 is no Status
NoTick == [ticked |-> <<>>, status |-> 0]

\* len(self.children)
LenChildren(b) == Cardinality(DOMAIN b.children)

\* what the children return when they are ticked
Outcomes(b) == [DOMAIN b.children -> Statuses]

\* the while loop of tick from self.current = cur, having ticked `ticked`
RECURSIVE SequenceLoop(_, _, _, _)
SequenceLoop(b, cur, o, ticked) ==
    IF cur < LenChildren(b)
    THEN LET status == o[cur]
         IN  IF status = RUNNING
             THEN [current |-> cur, ticked |-> Append(ticked, cur), status |-> RUNNING]
             ELSE IF status = FAILURE
             THEN [current |-> 0, ticked |-> Append(ticked, cur), status |-> FAILURE]
             ELSE SequenceLoop(b, cur + 1, o, Append(ticked, cur))
    ELSE [current |-> 0, ticked |-> ticked, status |-> SUCCESS]

\* self.current is reset when a child is RUNNING, too
SequenceTickRestart(b, o) ==
    [SequenceLoop(b, b.current, o, <<>>) EXCEPT !.current = 0]

\* Sequence.tick
SequenceTick(b, o) == SequenceLoop(b, b.current, o, <<>>)

-----------------------------------------------------------------------------
(* StateTrees.py: main's nodes, State and StateTree *)

StateNames == {"Idle", "Patrol", "Chase", "Attack"}

\* isinstance(node, State)
IsState(n) == n \in StateNames

\* the roots a StateTree is made of: main's states and main's ai_sequence
Roots == StateNames \cup {"ai_sequence"}

\* state.tasks: one task each, named as the state
TasksOf(n) == IF IsState(n) THEN <<n>> ELSE <<>>

\* the targets of state.transitions, in order
TargetsOf(n) ==
    CASE n = "Idle"   -> <<"Patrol">>
      [] n = "Patrol" -> <<"Chase">>
      [] n = "Chase"  -> <<"Attack">>
      [] n = "Attack" -> <<"Patrol">>
      [] OTHER        -> <<>>

\* node.children
ChildrenOf(n) ==
    CASE n = "Patrol"      -> <<"Chase">>
      [] n = "ai_sequence" -> <<"Idle", "Patrol", "Chase", "Attack">>
      [] OTHER             -> <<>>

\* the states with an on_enter and with an on_exit callback
HasOnEnter(n) == IsState(n)
HasOnExit(n) == FALSE

\* is_triggered is called at most this often by one update
MaxChecks == 5

\* what the calls of is_triggered return, in the order of the calls
Triggerings == [1..MaxChecks -> BOOLEAN]

Did(kind, n) == [kind |-> kind, state |-> n]

\* State.enter: on_enter, then enter of the first child
RECURSIVE Enter(_)
Enter(n) ==
    (IF HasOnEnter(n) THEN <<Did("on_enter", n)>> ELSE <<>>)
    \o (IF Len(ChildrenOf(n)) > 0 THEN Enter(ChildrenOf(n)[1]) ELSE <<>>)

\* State.exit
Exit(n) == IF HasOnExit(n) THEN <<Did("on_exit", n)>> ELSE <<>>

RECURSIVE RunTasks(_, _)
RunTasks(tasks, k) ==
    IF k > Len(tasks) THEN <<>>
    ELSE <<Did("task", tasks[k])>> \o RunTasks(tasks, k + 1)

\* update of a node, with the log and the number of is_triggered calls so
\* far in acc; the result is the node update returns
RECURSIVE UpdateNode(_, _, _)
RECURSIVE TransitionLoop(_, _, _, _)
RECURSIVE ChildLoop(_, _, _, _)

\* lines 113-117, from the k-th transition on
TransitionLoop(n, k, o, acc) ==
    IF k > Len(TargetsOf(n))
    THEN ChildLoop(n, 1, o, acc)
    ELSE LET target == TargetsOf(n)[k]
             checked == [log |-> acc.log \o <<Did("evaluated", n)>>,
                         used |-> acc.used + 1]
         IN  IF o[acc.used + 1]
             THEN [result |-> target,
                   log |-> checked.log \o <<Did("triggered", n)>>
                           \o Exit(n) \o Enter(target),
                   used |-> checked.used]
             ELSE TransitionLoop(n, k + 1, o, checked)

\* lines 118-122 for a State, 130-134 for a Sequence, from the k-th child on
ChildLoop(n, k, o, acc) ==
    IF k > Len(ChildrenOf(n))
    THEN [result |-> n, log |-> acc.log, used |-> acc.used]
    ELSE LET child == ChildrenOf(n)[k]
             r == UpdateNode(child, o, acc)
         IN  IF r.result # child /\ (IsState(n) \/ IsState(r.result))
             THEN r
             ELSE ChildLoop(n, k + 1, o, [log |-> r.log, used |-> r.used])

UpdateNode(n, o, acc) ==
    IF IsState(n)
    THEN TransitionLoop(n, 1, o,
            [log |-> acc.log \o RunTasks(TasksOf(n), 1), used |-> acc.used])
    ELSE ChildLoop(n, 1, o, acc)

\* StateTree.update
StateTreeUpdate(t, o) ==
    LET r == UpdateNode(t.root, o, [log |-> <<>>, used |-> 0])
    IN  IF IsState(t.root)
        THEN [tree |-> [t EXCEPT !.current_state = r.result], log |-> r.log]
        ELSE [tree |-> t, log |-> r.log]

NoStateTree == [root |-> None, current_state |-> None]

NoModel ==
    [states |-> <<>>, actions |-> <<>>, P |-> <<>>, R |-> <<>>,
     gamma |-> 0, terminal_states |-> {}]

Init ==
    /\ mdp = NoModel
    /\ pc = "new"
    /\ call = "none"
    /\ heap = [c \in Cells |-> FreeCell]
    /\ Vref = 0
    /\ polRef = 0
    /\ piV = 0
    /\ Qref = 0
    /\ idx = 0
    /\ delta = 0
    /\ policy_stable = TRUE
    /\ sweeps = 0
    /\ rounds = 0
    /\ hist = <<>>
    /\ state = None
    /\ episode = 0
    /\ qsteps = 0
    /\ epsilon = 0
    /\ action = None
    /\ exc = "none"
    /\ ret = NoRet
    /\ kept = NoKept
    /\ fsm = NoFSM
    /\ lastTrigger = NoTrigger
    /\ bt = NoSequence
    /\ lastTick = NoTick
    /\ stree = NoStateTree
    /\ lastUpdate = <<>>

\* terminal_states or set()
OrEmptySet(t) == IF t = {} THEN {} ELSE t

\* MDP.__init__: stores its arguments, whatever they are
MDPInit(m) ==
    [states |-> m.states, actions |-> m.actions, P |-> m.P, R |-> m.R,
     gamma |-> m.gamma, terminal_states |-> OrEmptySet(m.terminal_states)]

\* each script is a program of its own: a run constructs the object of one
Unstarted ==
    /\ pc = "new"
    /\ fsm = NoFSM
    /\ bt = NoSequence
    /\ stree = NoStateTree

Construct ==
    /\ Unstarted
    /\ \E m \in Models : mdp' = MDPInit(m)
    /\ pc' = "idle"
    /\ UNCHANGED <<call, heap, Vref, polRef, piV, Qref, idx, delta, policy_stable,
                   sweeps, rounds, hist, state, episode, qsteps, epsilon, action, exc, ret, kept, scripts>>

-----------------------------------------------------------------------------
(* Calls start when the object is idle; the caller's earlier results that it
   did not keep are garbage by then *)

Idle == pc = "idle" /\ call = "none"

\* V = {s: 0 for s in self.states}
ZeroV(m) == [s \in Range(m.states) |-> 0]

\* the caller binds the last result to names of its own
Keep ==
    /\ Idle
    /\ Refs(ret) # {}
    /\ kept' = [of |-> ret.of, V |-> ret.V, policy |-> ret.policy, Q |-> ret.Q]
    /\ ret' = NoRet
    /\ heap' = Collect(heap, Refs(ret))
    /\ rounds' = 0
    /\ hist' = <<>>
    /\ UNCHANGED <<mdp, pc, call, Vref, polRef, piV, Qref, idx, delta, policy_stable,
                   sweeps, state, episode, qsteps, epsilon, action, exc, scripts>>

\* the locals of a call that has ended are gone
LocalsGone ==
    /\ idx' = 0
    /\ delta' = 0
    /\ sweeps' = 0
    /\ policy_stable' = TRUE
    /\ state' = None
    /\ episode' = 0
    /\ qsteps' = 0
    /\ epsilon' = 0
    /\ action' = None

\* a call raised: the exception propagates to the caller
Raise(e) ==
    /\ exc' = e
    /\ pc' = "raised"
    /\ UNCHANGED <<mdp, call, heap, Vref, polRef, piV, Qref, idx, delta, policy_stable,
                   sweeps, rounds, hist, state, episode, qsteps, epsilon, action, ret, kept, scripts>>

-----------------------------------------------------------------------------
(* policy_evaluation *)

\* V is a dict kept from an earlier call when there is one
EnterPolicyEvaluationReuse(h, p) ==
    LET v == IF kept.V # 0 THEN kept.V ELSE Alloc(h)
    IN  /\ heap' = [h EXCEPT ![v] = [kind |-> "V", val |-> ZeroV(mdp)]]
        /\ Vref' = v
        /\ polRef' = p
        /\ pc' = "pe_for"
        /\ idx' = 1
        /\ delta' = 0
        /\ sweeps' = 0

\* line 14, entered with the policy object p
EnterPolicyEvaluation(h, p) ==
    LET v == Alloc(h)
    IN  /\ heap' = [h EXCEPT ![v] = [kind |-> "V", val |-> ZeroV(mdp)]]
        /\ Vref' = v
        /\ polRef' = p
        /\ pc' = "pe_for"
        /\ idx' = 1
        /\ delta' = 0
        /\ sweeps' = 0

\* the caller calls policy_evaluation with a policy of its own making
CallPolicyEvaluationFresh ==
    /\ Idle
    /\ \E p \in Policies(mdp) :
        LET h0 == Collect(heap, Refs(kept))
            c  == Alloc(h0)
            h1 == [h0 EXCEPT ![c] = [kind |-> "policy", val |-> p]]
        IN  EnterPolicyEvaluation(h1, c)
    /\ call' = "policy_evaluation"
    /\ ret' = NoRet
    /\ rounds' = 0
    /\ hist' = <<>>
    /\ UNCHANGED <<mdp, piV, Qref, policy_stable, state, episode, qsteps, epsilon, action, exc, kept, scripts>>

\* the caller passes a policy an earlier call returned
CallPolicyEvaluationKept ==
    /\ Idle
    /\ kept.policy # 0
    /\ EnterPolicyEvaluation(Collect(heap, Refs(kept)), kept.policy)
    /\ call' = "policy_evaluation"
    /\ ret' = NoRet
    /\ rounds' = 0
    /\ hist' = <<>>
    /\ UNCHANGED <<mdp, piV, Qref, policy_stable, state, episode, qsteps, epsilon, action, exc, kept, scripts>>

InPE == pc = "pe_for"

\* the states enumerated from the last to the first
CurStateReversed == mdp.states[Len(mdp.states) + 1 - idx]

\* line 17: the state the for loop is at
CurState == mdp.states[idx]

\* lines 17-24 for one state
PEUpdate ==
    /\ InPE
    /\ idx <= Len(mdp.states)
    /\ LET s == CurState
           V == heap[Vref].val
           a == heap[polRef].val[s]
       IN  IF Skipped(mdp, s)
           THEN /\ idx' = idx + 1
                /\ UNCHANGED <<mdp, pc, call, heap, Vref, polRef, piV, Qref, delta, policy_stable,
                               sweeps, rounds, hist, state, episode, qsteps, epsilon, action, exc, ret, kept, scripts>>
           ELSE IF LookupFails(mdp, s, a, V)
           THEN Raise("KeyError")
           ELSE LET v == PolicyBackup(mdp, s, a, V)
                IN  /\ delta' = Max2(delta, Abs(V[s] - v))
                    /\ heap' = [heap EXCEPT ![Vref].val[s] = v]
                    /\ idx' = idx + 1
                    /\ UNCHANGED <<mdp, pc, call, Vref, polRef, piV, Qref, policy_stable,
                                   sweeps, rounds, hist, state, episode, qsteps, epsilon, action, exc, ret, kept, scripts>>

\* lines 25-26 with delta >= theta: another sweep
PENextSweep ==
    /\ InPE
    /\ idx > Len(mdp.states)
    /\ ~(delta < Theta)
    /\ sweeps < MaxSweeps
    /\ sweeps' = sweeps + 1
    /\ delta' = 0
    /\ idx' = 1
    /\ UNCHANGED <<mdp, pc, call, heap, Vref, polRef, piV, Qref, policy_stable,
                   rounds, hist, state, episode, qsteps, epsilon, action, exc, ret, kept, scripts>>

\* lines 25-27 with delta < theta, called by the caller: V is returned
PEReturn ==
    /\ InPE
    /\ call = "policy_evaluation"
    /\ idx > Len(mdp.states)
    /\ delta < Theta
    /\ ret' = [NoRet EXCEPT !.of = "policy_evaluation", !.V = Vref]
    /\ heap' = Collect(heap, Refs(kept) \cup {Vref})
    /\ pc' = "idle"
    /\ call' = "none"
    /\ Vref' = 0
    /\ polRef' = 0
    /\ LocalsGone
    /\ UNCHANGED <<mdp, piV, Qref, rounds, hist, exc, kept, scripts>>

-----------------------------------------------------------------------------
(* value_iteration *)

\* some lookahead of state s raises KeyError
AnyLookupFails(m, s, V) == \E a \in Range(m.actions) : LookupFails(m, s, a, V)

\* line 30
CallValueIteration ==
    /\ Idle
    /\ LET h0 == Collect(heap, Refs(kept))
           v  == Alloc(h0)
       IN  /\ heap' = [h0 EXCEPT ![v] = [kind |-> "V", val |-> ZeroV(mdp)]]
           /\ Vref' = v
    /\ call' = "value_iteration"
    /\ pc' = "vi_for"
    /\ idx' = 1
    /\ delta' = 0
    /\ sweeps' = 0
    /\ ret' = NoRet
    /\ rounds' = 0
    /\ hist' = <<>>
    /\ UNCHANGED <<mdp, polRef, piV, Qref, policy_stable, state, episode, qsteps, epsilon, action,
                   exc, kept, scripts>>

\* lines 33-42 for one state
VIUpdate ==
    /\ pc = "vi_for"
    /\ idx <= Len(mdp.states)
    /\ LET s == CurState
           V == heap[Vref].val
       IN  IF Skipped(mdp, s)
           THEN /\ idx' = idx + 1
                /\ UNCHANGED <<mdp, pc, call, heap, Vref, polRef, piV, Qref, delta,
                               policy_stable, sweeps, rounds, hist, state, episode,
                               qsteps, epsilon, action, exc, ret, kept, scripts>>
           ELSE IF mdp.actions = <<>>
           THEN Raise("ValueError")
           ELSE IF AnyLookupFails(mdp, s, V)
           THEN Raise("KeyError")
           ELSE LET v == BellmanBackup(mdp, s, V)
                IN  /\ delta' = Max2(delta, Abs(V[s] - v))
                    /\ heap' = [heap EXCEPT ![Vref].val[s] = v]
                    /\ idx' = idx + 1
                    /\ UNCHANGED <<mdp, pc, call, Vref, polRef, piV, Qref, policy_stable,
                                   sweeps, rounds, hist, state, episode, qsteps, epsilon, action, exc,
                                   ret, kept, scripts>>

\* lines 43-44 with delta >= theta
VINextSweep ==
    /\ pc = "vi_for"
    /\ idx > Len(mdp.states)
    /\ ~(delta < Theta)
    /\ sweeps < MaxSweeps
    /\ sweeps' = sweeps + 1
    /\ delta' = 0
    /\ idx' = 1
    /\ UNCHANGED <<mdp, pc, call, heap, Vref, polRef, piV, Qref, policy_stable,
                   rounds, hist, state, episode, qsteps, epsilon, action, exc, ret, kept, scripts>>

\* lines 43-45 with delta < theta: policy = {}
VIConverged ==
    /\ pc = "vi_for"
    /\ idx > Len(mdp.states)
    /\ delta < Theta
    /\ LET c == Alloc(heap)
       IN  /\ heap' = [heap EXCEPT ![c] = [kind |-> "policy", val |-> <<>>]]
           /\ polRef' = c
    /\ pc' = "vi_policy"
    /\ idx' = 1
    /\ UNCHANGED <<mdp, call, Vref, piV, Qref, delta, policy_stable, sweeps, rounds,
                   hist, state, episode, qsteps, epsilon, action, exc, ret, kept, scripts>>

\* lines 46-55 for one state
VIPolicy ==
    /\ pc = "vi_policy"
    /\ idx <= Len(mdp.states)
    /\ LET s == CurState
           V == heap[Vref].val
           pol == heap[polRef].val
       IN  IF s \in mdp.terminal_states
           THEN /\ heap' = [heap EXCEPT ![polRef].val = pol @@ (s :> None)]
                /\ idx' = idx + 1
                /\ UNCHANGED <<mdp, pc, call, Vref, polRef, piV, Qref, delta, policy_stable,
                               sweeps, rounds, hist, state, episode, qsteps, epsilon, action, exc, ret, kept, scripts>>
           ELSE IF mdp.actions = <<>>
           THEN Raise("ValueError")
           ELSE IF AnyLookupFails(mdp, s, V)
           THEN Raise("KeyError")
           ELSE /\ heap' = [heap EXCEPT ![polRef].val = pol @@ (s :> BestAction(mdp, s, V))]
                /\ idx' = idx + 1
                /\ UNCHANGED <<mdp, pc, call, Vref, polRef, piV, Qref, delta, policy_stable,
                               sweeps, rounds, hist, state, episode, qsteps, epsilon, action, exc, ret, kept, scripts>>

\* line 56
VIReturn ==
    /\ pc = "vi_policy"
    /\ idx > Len(mdp.states)
    /\ ret' = [NoRet EXCEPT !.of = "value_iteration", !.V = Vref, !.policy = polRef]
    /\ pc' = "idle"
    /\ call' = "none"
    /\ Vref' = 0
    /\ polRef' = 0
    /\ LocalsGone
    /\ UNCHANGED <<mdp, heap, piV, Qref, rounds, hist, exc, kept, scripts>>

-----------------------------------------------------------------------------
(* policy_iteration *)

\* lines 59-60: a random action for every non-terminal state, None for
\* every terminal state
InitialPolicies(m) ==
    {p \in [Range(NonTerminal(m)) \cup m.terminal_states -> Range(m.actions) \cup {None}] :
        \A s \in DOMAIN p : (p[s] = None) <=> (s \in m.terminal_states)}

\* lines 59-62
CallPolicyIteration ==
    /\ Idle
    /\ IF NonTerminal(mdp) # <<>> /\ mdp.actions = <<>>
       THEN /\ call' = "policy_iteration"
            /\ exc' = "IndexError"
            /\ pc' = "raised"
            /\ ret' = NoRet
            /\ heap' = Collect(heap, Refs(kept))
            /\ rounds' = 0
            /\ hist' = <<>>
            /\ UNCHANGED <<mdp, Vref, polRef, piV, Qref, idx, delta, policy_stable,
                           sweeps, state, episode, qsteps, epsilon, action, kept, scripts>>
       ELSE /\ \E p \in InitialPolicies(mdp) :
                LET h0 == Collect(heap, Refs(kept))
                    c  == Alloc(h0)
                    h1 == [h0 EXCEPT ![c] = [kind |-> "policy", val |-> p]]
                IN  EnterPolicyEvaluation(h1, c)
            /\ call' = "policy_iteration"
            /\ ret' = NoRet
            /\ rounds' = 0
            /\ hist' = <<>>
            /\ piV' = 0
            /\ UNCHANGED <<mdp, Qref, policy_stable, state, episode, qsteps, epsilon, action, exc, kept, scripts>>

\* line 62: policy_evaluation returns to policy_iteration, which binds V;
\* line 63
PIEvaluated ==
    /\ InPE
    /\ call = "policy_iteration"
    /\ idx > Len(mdp.states)
    /\ delta < Theta
    /\ piV' = Vref
    /\ Vref' = 0
    /\ heap' = Collect(heap, Refs(kept) \cup {Vref, polRef})
    /\ hist' = Append(hist, [policy |-> heap[polRef].val, V |-> heap[Vref].val])
    /\ policy_stable' = TRUE
    /\ pc' = "pi_for"
    /\ idx' = 1
    /\ UNCHANGED <<mdp, call, polRef, Qref, delta, sweeps, rounds, state, episode,
                   qsteps, epsilon, action, exc, ret, kept, scripts>>

\* lines 64-75 for one state
PIImprove ==
    /\ pc = "pi_for"
    /\ idx <= Len(mdp.states)
    /\ LET s == CurState
           V == heap[piV].val
           old_action == heap[polRef].val[s]
       IN  IF Skipped(mdp, s)
           THEN /\ idx' = idx + 1
                /\ UNCHANGED <<mdp, pc, call, heap, Vref, polRef, piV, Qref, delta,
                               policy_stable, sweeps, rounds, hist, state, episode,
                               qsteps, epsilon, action, exc, ret, kept, scripts>>
           ELSE IF AnyLookupFails(mdp, s, V)
           THEN Raise("KeyError")
           ELSE LET best_action == BestAction(mdp, s, V)
                IN  /\ heap' = [heap EXCEPT ![polRef].val[s] = best_action]
                    /\ policy_stable' = IF old_action # best_action THEN FALSE
                                        ELSE policy_stable
                    /\ idx' = idx + 1
                    /\ UNCHANGED <<mdp, pc, call, Vref, polRef, piV, Qref, delta, sweeps,
                                   rounds, hist, state, episode, qsteps, epsilon, action, exc, ret, kept, scripts>>

\* lines 76, 61-62 with policy_stable false: evaluate the new policy
PIAgain ==
    /\ pc = "pi_for"
    /\ idx > Len(mdp.states)
    /\ ~policy_stable
    /\ rounds < MaxRounds
    /\ rounds' = rounds + 1
    /\ EnterPolicyEvaluation(heap, polRef)
    /\ UNCHANGED <<mdp, call, piV, Qref, policy_stable, hist, state, episode, qsteps, epsilon, action,
                   exc, ret, kept, scripts>>

\* lines 76-78 with policy_stable true
PIReturn ==
    /\ pc = "pi_for"
    /\ idx > Len(mdp.states)
    /\ policy_stable
    /\ rounds' = rounds + 1
    /\ ret' = [NoRet EXCEPT !.of = "policy_iteration", !.V = piV, !.policy = polRef]
    /\ pc' = "idle"
    /\ call' = "none"
    /\ piV' = 0
    /\ polRef' = 0
    /\ LocalsGone
    /\ UNCHANGED <<mdp, heap, Vref, Qref, hist, exc, kept, scripts>>

-----------------------------------------------------------------------------
(* step *)

\* lines 83-87: the (next_state, reward) pairs random.choices may produce
Sampled(m, s, a) ==
    {<<m.P[s][a][k][2], m.R[s][a]>> : k \in {j \in 1..Len(m.P[s][a]) : m.P[s][a][j][1] > 0}}

\* a successor drawn without its weight: random.choice(next_states)
StepResultsUnweighted(m, s, a) ==
    IF s \in m.terminal_states THEN {<<s, 0>>}
    ELSE {<<m.P[s][a][k][2], m.R[s][a]>> : k \in 1..Len(m.P[s][a])}

\* the terminal test of line 81 left out
StepResultsSampled(m, s, a) == IF a = None THEN {<<s, 0>>} ELSE Sampled(m, s, a)

\* lines 80-87: what step(s, a) may return
StepResults(m, s, a) ==
    IF s \in m.terminal_states THEN {<<s, 0>>} ELSE Sampled(m, s, a)

\* the caller passes a state and an action of the model, or the None a policy
\* gives for a terminal state (main, lines 139-140)
StepArgs(m) ==
    (Range(m.states) \X Range(m.actions)) \cup (m.terminal_states \X {None})

CallStep ==
    /\ Idle
    /\ \E sa \in StepArgs(mdp) :
        \E r \in StepResults(mdp, sa[1], sa[2]) :
            ret' = [NoRet EXCEPT !.of = "step", !.state = sa[1], !.action = sa[2],
                                 !.next_state = r[1], !.reward = r[2]]
    /\ heap' = Collect(heap, Refs(kept))
    /\ rounds' = 0
    /\ hist' = <<>>
    /\ UNCHANGED <<mdp, pc, call, Vref, polRef, piV, Qref, idx, delta, policy_stable,
                   sweeps, state, episode, qsteps, epsilon, action, exc, kept, scripts>>

-----------------------------------------------------------------------------
(* q_learning *)

\* the values of epsilon the caller may pass: 0, 0.1 and 1
Epsilons == {0, 1, EDen}

\* every entry starts at 1
OptimisticQ(m) == [s \in Range(m.states) |-> [a \in Range(m.actions) |-> Scale]]

\* line 90
ZeroQ(m) == [s \in Range(m.states) |-> [a \in Range(m.actions) |-> 0]]

\* max(Q[state], key=Q[state].get): the first action with the largest entry
GreedyQ(m, Qs) ==
    LET n == Len(m.actions)
        best == CHOOSE k \in 1..n :
                    /\ \A j \in 1..n : Qs[m.actions[j]] <= Qs[m.actions[k]]
                    /\ \A j \in 1..(k - 1) : Qs[m.actions[j]] < Qs[m.actions[k]]
    IN  m.actions[best]

\* max(Q[next_state].values())
MaxQ(m, Qs) == Qs[GreedyQ(m, Qs)]

\* line 99: the new Q[state][action]
QUpdate(m, q, reward, maxNext) ==
    q + (AlphaNum * (reward * GDen + m.gamma * maxNext - q * GDen)) \div (ADen * GDen)

CallQLearning ==
    /\ Idle
    /\ \E n \in 0..MaxEpisodes : episode' = n
    /\ LET h0 == Collect(heap, Refs(kept))
           c  == Alloc(h0)
       IN  /\ heap' = [h0 EXCEPT ![c] = [kind |-> "Q", val |-> ZeroQ(mdp)]]
           /\ Qref' = c
    /\ call' = "q_learning"
    /\ pc' = "ql_for"
    /\ qsteps' = 0
    /\ \E e \in Epsilons : epsilon' = e
    /\ action' = None
    /\ state' = None
    /\ ret' = NoRet
    /\ rounds' = 0
    /\ hist' = <<>>
    /\ UNCHANGED <<mdp, Vref, polRef, piV, idx, delta, policy_stable, sweeps, exc, kept, scripts>>

\* lines 91-92: the next episode starts in a random non-terminal state
QLEpisode ==
    /\ pc = "ql_for"
    /\ episode > 0
    /\ IF NonTerminal(mdp) = <<>>
       THEN Raise("IndexError")
       ELSE /\ \E s \in Range(NonTerminal(mdp)) : state' = s
            /\ episode' = episode - 1
            /\ pc' = "ql_while"
            /\ UNCHANGED <<mdp, call, heap, Vref, polRef, piV, Qref, idx, delta,
                           policy_stable, sweeps, rounds, hist, qsteps, epsilon, action, exc, ret, kept, scripts>>

\* lines 98-100 with the action a chosen
QLMove(a) ==
    \E r \in StepResults(mdp, state, a) :
        LET Q == heap[Qref].val
        IN  IF r[1] \notin DOMAIN Q
            THEN Raise("KeyError")
            ELSE /\ heap' = [heap EXCEPT ![Qref].val[state][a] =
                                QUpdate(mdp, Q[state][a], r[2], MaxQ(mdp, Q[r[1]]))]
                 /\ action' = a
                 /\ state' = r[1]
                 /\ qsteps' = qsteps + 1
                 /\ UNCHANGED <<mdp, pc, call, Vref, polRef, piV, Qref, idx, delta,
                                policy_stable, sweeps, rounds, hist, episode, epsilon,
                                exc, ret, kept, scripts>>

\* lines 93-95, 98-100: random.random() < epsilon (possible when epsilon > 0),
\* a random action
QLExplore ==
    /\ pc = "ql_while"
    /\ state \notin mdp.terminal_states
    /\ epsilon > 0
    /\ qsteps < MaxQSteps
    /\ IF mdp.actions = <<>>
       THEN Raise("IndexError")
       ELSE \E a \in Range(mdp.actions) : QLMove(a)

\* lines 93-94, 96-100: random.random() >= epsilon (possible when epsilon < 1),
\* the greedy action
QLExploit ==
    /\ pc = "ql_while"
    /\ state \notin mdp.terminal_states
    /\ epsilon < EDen
    /\ qsteps < MaxQSteps
    /\ IF mdp.actions = <<>>
       THEN Raise("ValueError")
       ELSE QLMove(GreedyQ(mdp, heap[Qref].val[state]))

\* line 93 with state terminal: the episode is over
QLEpisodeEnd ==
    /\ pc = "ql_while"
    /\ state \in mdp.terminal_states
    /\ pc' = "ql_for"
    /\ UNCHANGED <<mdp, call, heap, Vref, polRef, piV, Qref, idx, delta, policy_stable,
                   sweeps, rounds, hist, state, episode, qsteps, epsilon, action, exc, ret, kept, scripts>>

\* line 101
QPolicy(m, Q) ==
    [s \in Range(m.states) |->
        IF s \notin m.terminal_states THEN GreedyQ(m, Q[s]) ELSE None]

\* lines 101-102
QLReturn ==
    /\ pc = "ql_for"
    /\ episode = 0
    /\ IF NonTerminal(mdp) # <<>> /\ mdp.actions = <<>>
       THEN Raise("ValueError")
       ELSE LET c == Alloc(heap)
            IN  /\ heap' = [heap EXCEPT ![c] =
                               [kind |-> "policy", val |-> QPolicy(mdp, heap[Qref].val)]]
                /\ ret' = [NoRet EXCEPT !.of = "q_learning", !.Q = Qref, !.policy = c]
                /\ pc' = "idle"
                /\ call' = "none"
                /\ Qref' = 0
                /\ LocalsGone
                /\ UNCHANGED <<mdp, Vref, polRef, piV, rounds, hist, exc, kept, scripts>>

-----------------------------------------------------------------------------
(* The caller catches the exception; the locals of the failed call are gone *)

Recover ==
    /\ pc = "raised"
    /\ pc' = "idle"
    /\ call' = "none"
    /\ exc' = "none"
    /\ Vref' = 0
    /\ polRef' = 0
    /\ piV' = 0
    /\ Qref' = 0
    /\ heap' = Collect(heap, Refs(kept))
    /\ LocalsGone
    /\ rounds' = 0
    /\ hist' = <<>>
    /\ UNCHANGED <<mdp, ret, kept, scripts>>

-----------------------------------------------------------------------------

-----------------------------------------------------------------------------
(* FinitStateMachine.py: the calls *)

\* FSM(initial_state, transitions, actions): on_enter of the initial state
FSMInit ==
    /\ Unstarted
    /\ \E m \in Machines :
        LET f == [current_state |-> m.initial_state,
                  transitions |-> m.transitions,
                  actions |-> OrNoActions(m.actions)]
        IN  /\ fsm' = f
            /\ lastTrigger' = [event |-> None, guard |-> None,
                               calls |-> TriggerAction(f, "on_enter", f.current_state)]
    /\ UNCHANGED <<mdpVars, bt, lastTick, stree, lastUpdate>>

FSMTrigger ==
    /\ fsm # NoFSM
    /\ \E event \in Events, g \in BOOLEAN :
        LET r == Trigger(fsm, event, g)
        IN  /\ fsm' = r.fsm
            /\ lastTrigger' = [event |-> event, guard |-> r.guard, calls |-> r.calls]
    /\ UNCHANGED <<mdpVars, bt, lastTick, stree, lastUpdate>>

-----------------------------------------------------------------------------
(* BehaviorTrees.py: the calls *)

\* tree = Sequence([...])
SequenceInit ==
    /\ Unstarted
    /\ bt' \in Sequences
    /\ UNCHANGED <<mdpVars, fsm, lastTrigger, lastTick, stree, lastUpdate>>

\* tree.tick()
Tick ==
    /\ bt # NoSequence
    /\ \E o \in Outcomes(bt) :
        LET r == SequenceTick(bt, o)
        IN  /\ bt' = [bt EXCEPT !.current = r.current]
            /\ lastTick' = [ticked |-> r.ticked, status |-> r.status]
    /\ UNCHANGED <<mdpVars, fsm, lastTrigger, stree, lastUpdate>>

-----------------------------------------------------------------------------
(* StateTrees.py: the calls *)

\* tree = StateTree(root)
StateTreeInit ==
    /\ Unstarted
    /\ \E root \in Roots :
        IF IsState(root)
        THEN /\ stree' = [root |-> root, current_state |-> root]
             /\ lastUpdate' = Enter(root)
        ELSE /\ stree' = [root |-> root, current_state |-> None]
             /\ lastUpdate' = <<>>
    /\ UNCHANGED <<mdpVars, fsm, lastTrigger, bt, lastTick>>

\* tree.update()
Update ==
    /\ stree # NoStateTree
    /\ \E o \in Triggerings :
        LET r == StateTreeUpdate(stree, o)
        IN  /\ stree' = r.tree
            /\ lastUpdate' = r.log
    /\ UNCHANGED <<mdpVars, fsm, lastTrigger, bt, lastTick>>

Next ==
    \/ Construct
    \/ StateTreeInit
    \/ Update
    \/ SequenceInit
    \/ Tick
    \/ FSMInit
    \/ FSMTrigger
    \/ Keep
    \/ CallPolicyEvaluationFresh
    \/ CallPolicyEvaluationKept
    \/ PEUpdate
    \/ PENextSweep
    \/ PEReturn
    \/ CallValueIteration
    \/ VIUpdate
    \/ VINextSweep
    \/ VIConverged
    \/ VIPolicy
    \/ VIReturn
    \/ CallPolicyIteration
    \/ PIEvaluated
    \/ PIImprove
    \/ PIAgain
    \/ PIReturn
    \/ CallStep
    \/ CallQLearning
    \/ QLEpisode
    \/ QLExplore
    \/ QLExploit
    \/ QLEpisodeEnd
    \/ QLReturn
    \/ Recover

Spec == Init /\ [][Next]_vars

\* a call that has started executes its next statement
Running ==
    \/ PEUpdate \/ PENextSweep \/ PEReturn
    \/ VIUpdate \/ VINextSweep \/ VIConverged \/ VIPolicy \/ VIReturn
    \/ PIEvaluated \/ PIImprove \/ PIAgain \/ PIReturn

FairSpec == Spec /\ WF_vars(Running)

-----------------------------------------------------------------------------
(* Properties *)

\* a Model as the specification asks for it
ValidModel(m) ==
    /\ WellFormed(m)
    /\ m.gamma < GDen
    /\ m.terminal_states \subseteq Range(m.states)

\* C1: a Model in which the probabilities of some (state, action) pair do not
\* sum to 1 is rejected at construction, so no call ever runs on such a Model
C1_BadSumNeverRuns == call # "none" => ProbsSumToOne(mdp)

\* C2: a Model that lists an unknown successor is rejected at construction, so
\* no call ever fails looking up V or Q for an unknown state
C2_NoLookupOfUnknownState == exc # "KeyError"

\* C3: a Model with no states or no actions is rejected at construction, so no
\* call is ever entered on one
C3_EmptyModelNeverRuns == call # "none" => NonEmpty(mdp)

\* C4: step on a terminal state returns that state and reward 0, whatever the
\* action, the tables and the random source
C4_StepTerminalAbsorbing ==
    (ret.of = "step" /\ ret.state \in mdp.terminal_states)
        => (ret.next_state = ret.state /\ ret.reward = 0)

\* step was called on a terminal state whose tables give a reward and a way out
C4_Witness ==
    /\ ret.of = "step"
    /\ ret.state \in mdp.terminal_states
    /\ ret.action # None
    /\ mdp.R[ret.state][ret.action] # 0
    /\ mdp.P[ret.state][ret.action][1][2] # ret.state

TerminalClean(c) ==
    LET cell == heap[c]
        T == mdp.terminal_states \cap DOMAIN cell.val
    IN  /\ cell.kind = "V" => \A t \in T : cell.val[t] = 0
        /\ cell.kind = "policy" => \A t \in T : cell.val[t] = None
        /\ cell.kind = "Q" => \A t \in T : \A a \in DOMAIN cell.val[t] : cell.val[t][a] = 0

\* C5: at every step of every algorithm and in every result, a terminal state
\* has value 0 (Q-value 0 for q_learning) and policy entry None
C5_TerminalZeroNone ==
    /\ \A c \in Cells : TerminalClean(c)
    /\ \A c \in Refs(ret) :
        mdp.terminal_states \cap Range(mdp.states) \subseteq DOMAIN heap[c].val

\* value_iteration has returned, a q_learning result that learned something is
\* still held, and the tables of the terminal state give it a reward
C5_Witness ==
    /\ ret.of = "value_iteration"
    /\ kept.of = "q_learning"
    /\ \E t \in mdp.terminal_states : \E a \in Range(mdp.actions) : mdp.R[t][a] # 0
    /\ \E s \in Range(mdp.states) : heap[ret.V].val[s] > 0
    /\ \E s \in Range(mdp.states) : \E a \in Range(mdp.actions) : heap[kept.Q].val[s][a] > 0

\* the locals of the running call that were created by it
OwnRefs ==
    ({Vref, piV, Qref} \cup (IF call = "policy_evaluation" THEN {} ELSE {polRef})) \ {0}

\* C6: no step changes the Model, the policy policy_evaluation was given or
\* an object the caller holds from an earlier call, and what a call creates
\* and returns is no object the caller already holds
C6_NoMutationNoSharing ==
    [][/\ pc # "new" => mdp' = mdp
       /\ \A c \in Refs(kept) \cap Refs(kept') : heap'[c] = heap[c]
       /\ (InPE /\ InPE') => heap'[polRef] = heap[polRef]
       /\ OwnRefs' \cap Refs(kept') = {}
       /\ Refs(ret') \cap Refs(kept') = {}]_vars

\* policy_evaluation runs on a policy an earlier call returned, next to the V
\* of that call
C6_Witness ==
    /\ InPE
    /\ call = "policy_evaluation"
    /\ polRef = kept.policy
    /\ kept.V # 0
    /\ sweeps >= 1
    /\ heap[Vref].val # heap[kept.V].val

\* C7: on the three-state example value_iteration returns a1 for s0 and for s1
C7_ExamplePolicy ==
    (mdp = MDPInit(Example) /\ ret.of = "value_iteration")
        => (heap[ret.policy].val["s0"] = "a1" /\ heap[ret.policy].val["s1"] = "a1")

C7_Witness ==
    /\ mdp = MDPInit(Example)
    /\ ret.of = "value_iteration"
    /\ heap[ret.V].val["s0"] = (19 * Scale) \div 10
    /\ heap[ret.V].val["s1"] = 2 * Scale

-----------------------------------------------------------------------------
(* value_iteration against policy_iteration *)

\* the caller holds the result of one and has just received that of the other
BothReturned == {kept.of, ret.of} = {"value_iteration", "policy_iteration"}

ViV == heap[IF kept.of = "value_iteration" THEN kept.V ELSE ret.V].val
ViPolicy == heap[IF kept.of = "value_iteration" THEN kept.policy ELSE ret.policy].val
PiV == heap[IF kept.of = "policy_iteration" THEN kept.V ELSE ret.V].val
PiPolicy == heap[IF kept.of = "policy_iteration" THEN kept.policy ELSE ret.policy].val

\* 2 theta / (1 - gamma)
Tol(m) == (2 * Theta * GDen) \div (GDen - m.gamma)

\* 2 gamma Tol
Margin(m) == (2 * m.gamma * Tol(m)) \div GDen

\* the greedy action of s under V beats every other action by more than d
DecidedBy(m, s, V, d) ==
    LET b == BestAction(m, s, V)
    IN  \A a \in Range(m.actions) \ {b} :
            Lookahead(m, s, b, V) - Lookahead(m, s, a, V) > d

\* the optimal value function: Bellman sweeps repeated until nothing changes
RECURSIVE OptSweep(_, _, _)
OptSweep(m, V, k) ==
    IF k > Len(m.states) THEN V
    ELSE LET s == m.states[k]
         IN  OptSweep(m, IF s \in m.terminal_states THEN V
                         ELSE [V EXCEPT ![s] = Lookahead(m, s, BestAction(m, s, V), V)],
                      k + 1)

RECURSIVE OptFix(_, _, _)
OptFix(m, V, n) ==
    LET W == OptSweep(m, V, 1)
    IN  IF W = V \/ n = 0 THEN W ELSE OptFix(m, W, n - 1)

VStar(m) == OptFix(m, ZeroV(m), 4 * MaxSweeps)

\* the optimal action of s is unique: it beats every other action under the
\* optimal value function by more than the rounding of that function
UniqueOptimal(m, s) == DecidedBy(m, s, VStar(m), (2 * GDen) \div (GDen - m.gamma))

ValuesAgree ==
    \A s \in Range(mdp.states) : Abs(ViV[s] - PiV[s]) <= Tol(mdp)

\* C8 as claimed: the value functions agree within the tolerance and the
\* policies agree wherever the optimal action is unique
C8_AgreeWhereOptimalUnique ==
    (ValidModel(mdp) /\ BothReturned) =>
        /\ ValuesAgree
        /\ \A s \in Range(NonTerminal(mdp)) :
            UniqueOptimal(mdp, s) => ViPolicy[s] = PiPolicy[s]

\* C8 as amended: the value functions agree within 2 theta / (1 - gamma) and
\* the policies agree wherever value_iteration's action beats every other by
\* more than 2 gamma times that tolerance under value_iteration's V
C8_AgreeWhereDecided ==
    (ValidModel(mdp) /\ BothReturned) =>
        /\ ValuesAgree
        /\ \A s \in Range(NonTerminal(mdp)) :
            DecidedBy(mdp, s, ViV, Margin(mdp)) => ViPolicy[s] = PiPolicy[s]

\* both have returned with different value functions; one state is decided by
\* the margin, another is not and the two policies differ there
C8_Witness ==
    /\ ValidModel(mdp)
    /\ BothReturned
    /\ ViV # PiV
    /\ \E s \in Range(NonTerminal(mdp)) : DecidedBy(mdp, s, ViV, Margin(mdp))
    /\ \E s \in Range(NonTerminal(mdp)) : ViPolicy[s] # PiPolicy[s]

-----------------------------------------------------------------------------
(* the rounds of policy_iteration *)

NoRevisit == \A i, j \in 1..Len(hist) : i < j => hist[i].policy # hist[j].policy

\* C9: policy_iteration needs at most |states| * |actions| improvement rounds
\* and never evaluates a policy a second time
C9_BoundedRoundsNoCycle ==
    ValidModel(mdp) =>
        /\ rounds <= Len(mdp.states) * Len(mdp.actions)
        /\ NoRevisit

\* C10 as claimed: the evaluated value function never decreases from one round
\* to the next, at any state
C10_Monotone ==
    ValidModel(mdp) =>
        \A k \in 1..(Len(hist) - 1) : \A s \in Range(mdp.states) :
            hist[k + 1].V[s] >= hist[k].V[s]

\* C10 as amended: it never decreases by more than 2 theta / (1 - gamma)
C10_MonotoneWithinTol ==
    ValidModel(mdp) =>
        \A k \in 1..(Len(hist) - 1) : \A s \in Range(mdp.states) :
            hist[k + 1].V[s] >= hist[k].V[s] - Tol(mdp)

\* policy_iteration has returned and one of its rounds lowered the value of a
\* state, within the tolerance
C10_Witness ==
    /\ ValidModel(mdp)
    /\ ret.of = "policy_iteration"
    /\ \E s \in Range(mdp.states) :
        \E k \in 1..(Len(hist) - 1) : hist[k + 1].V[s] < hist[k].V[s]

-----------------------------------------------------------------------------
(* the sweep loops *)

InSweepLoop == pc \in {"pe_for", "vi_for"}

\* C11: on a valid Model (gamma < 1) the sweep loop of policy_evaluation and of
\* value_iteration is always left, by a sweep that ends with delta < theta and
\* never by an exception
C11_SweepsTerminate ==
    /\ [](ValidModel(mdp) /\ call \in {"policy_evaluation", "value_iteration"}
            => exc = "none")
    /\ (ValidModel(mdp) /\ InSweepLoop) ~> (pc \notin {"pe_for", "vi_for", "raised"})

\* a sweep of a valid Model ends with delta < theta after ten sweeps and more
\* that did not
C11_Witness ==
    /\ ValidModel(mdp)
    /\ InSweepLoop
    /\ idx > Len(mdp.states)
    /\ sweeps >= 10
    /\ delta < Theta
    /\ delta > 0

\* one sweep of lines 17-24 for the policy pol, from state number k on
RECURSIVE EvaluationSweep(_, _, _, _)
EvaluationSweep(m, pol, V, k) ==
    IF k > Len(m.states) THEN V
    ELSE LET s == m.states[k]
         IN  EvaluationSweep(m, pol,
                             IF Skipped(m, s) THEN V
                             ELSE [V EXCEPT ![s] = PolicyBackup(m, s, pol[s], V)],
                             k + 1)

\* policy_evaluation is about to return V
PEConverged == InPE /\ idx > Len(mdp.states) /\ delta < Theta

\* C15: one more evaluation sweep for the same policy changes no value of the
\* V policy_evaluation returns by theta or more
C15_EvaluationIdempotent ==
    (ValidModel(mdp) /\ PEConverged) =>
        LET V == heap[Vref].val
            W == EvaluationSweep(mdp, heap[polRef].val, V, 1)
        IN  \A s \in Range(mdp.states) : Abs(W[s] - V[s]) < Theta

\* policy_evaluation is about to return a V that one more sweep still changes
C15_Witness ==
    /\ ValidModel(mdp)
    /\ PEConverged
    /\ call = "policy_evaluation"
    /\ sweeps >= 2
    /\ EvaluationSweep(mdp, heap[polRef].val, heap[Vref].val, 1) # heap[Vref].val

\* C14: a sweep loop that has not converged within the sweep bound is ended by
\* a fault: it is never found at the end of an unconverged sweep, without an
\* exception, once the bound is used up
C14_NonConvergenceFaults ==
    (InSweepLoop /\ idx > Len(mdp.states) /\ ~(delta < Theta)) => sweeps < MaxSweeps

-----------------------------------------------------------------------------
(* q_learning *)

\* C12: q_learning on a valid Model never ends by an exception
C12_QLearningNeverRaises ==
    (ValidModel(mdp) /\ call = "q_learning") => exc = "none"

\* the states some sequence of transitions of positive probability leads to
RECURSIVE ReachableFrom(_, _, _)
ReachableFrom(m, S, n) ==
    LET Succ(s, a) == {m.P[s][a][k][2] : k \in {j \in 1..Len(m.P[s][a]) : m.P[s][a][j][1] > 0}}
        T == S \cup UNION {Succ(sa[1], sa[2]) : sa \in S \X Range(m.actions)}
    IN  IF n = 0 \/ T = S THEN T ELSE ReachableFrom(m, T, n - 1)

\* C13: q_learning returns on every valid Model, with or without terminal
\* states: while an episode runs, some sampling of transitions still ends it,
\* that is, a terminal state can be reached from the episode's state
C13_EpisodesCanEnd ==
    (ValidModel(mdp) /\ pc = "ql_while") =>
        ReachableFrom(mdp, {state}, Len(mdp.states)) \cap mdp.terminal_states # {}

-----------------------------------------------------------------------------
(* greedy selection *)

\* a attains the largest score and no action listed before it does
IsFirstMaximiser(acts, score, a) ==
    \E k \in 1..Len(acts) :
        /\ acts[k] = a
        /\ \A j \in 1..Len(acts) : score[acts[j]] <= score[a]
        /\ \A j \in 1..(k - 1) : score[acts[j]] < score[a]

LookaheadOf(m, s, V) == [a \in Range(m.actions) |-> Lookahead(m, s, a, V)]

\* the policies held in the state are made of first maximisers
GreedyPoliciesFirst ==
    /\ ret.of = "value_iteration" =>
        \A s \in Range(NonTerminal(mdp)) :
            IsFirstMaximiser(mdp.actions, LookaheadOf(mdp, s, heap[ret.V].val),
                             heap[ret.policy].val[s])
    /\ pc = "pi_for" =>
        \A k \in 1..(idx - 1) :
            mdp.states[k] \notin mdp.terminal_states =>
                IsFirstMaximiser(mdp.actions,
                                 LookaheadOf(mdp, mdp.states[k], heap[piV].val),
                                 heap[polRef].val[mdp.states[k]])
    /\ ret.of = "q_learning" =>
        \A s \in Range(NonTerminal(mdp)) :
            IsFirstMaximiser(mdp.actions, heap[ret.Q].val[s], heap[ret.policy].val[s])

\* a step of q_learning called with epsilon = 0 takes a first maximiser of Q[state]
ExploitFirst ==
    (pc = "ql_while" /\ epsilon = 0 /\ qsteps' = qsteps + 1) =>
        IsFirstMaximiser(mdp.actions, heap[Qref].val[state], action')

\* C16: the policy value_iteration derives, every action policy_iteration's
\* improvement sets, the action q_learning exploits and the policy it derives
\* are the first action, in the order of self.actions, that attains the maximum
C16_FirstMaximiser == []GreedyPoliciesFirst /\ [][ExploitFirst]_vars

\* value_iteration returned a policy that resolves a tie of two lookaheads,
\* and a q_learning result that learned something is held
C16_Witness ==
    /\ ret.of = "value_iteration"
    /\ kept.of = "q_learning"
    /\ \E s \in Range(mdp.states) : \E a \in Range(mdp.actions) : heap[kept.Q].val[s][a] > 0
    /\ \E s \in Range(NonTerminal(mdp)) :
        /\ \A a \in Range(mdp.actions) :
            Lookahead(mdp, s, a, heap[ret.V].val) =
                Lookahead(mdp, s, heap[ret.policy].val[s], heap[ret.V].val)
        /\ heap[ret.policy].val[s] = mdp.actions[1]

-----------------------------------------------------------------------------
(* step on a non-terminal state *)

\* the last call was step(ret.state, ret.action) on a non-terminal state
SteppedNonTerminal == ret.of = "step" /\ ret.state \notin mdp.terminal_states

\* C17: step(s, a) on a non-terminal s returns a successor that P(s, a) lists
\* with a probability above 0 together with R(s, a), whichever successor was
\* sampled, and the call leaves the Model as it was
C17_StepSamplesListedSuccessor ==
    /\ [](SteppedNonTerminal =>
            /\ \E k \in 1..Len(mdp.P[ret.state][ret.action]) :
                /\ mdp.P[ret.state][ret.action][k][1] > 0
                /\ mdp.P[ret.state][ret.action][k][2] = ret.next_state
            /\ ret.reward = mdp.R[ret.state][ret.action])
    /\ [][(ret'.of = "step" /\ ret' # ret) => mdp' = mdp]_vars

\* step returned from a non-terminal state whose list names another successor
\* with probability 0, with a reward other than 0
C17_Witness ==
    /\ SteppedNonTerminal
    /\ \E k \in 1..Len(mdp.P[ret.state][ret.action]) :
        /\ mdp.P[ret.state][ret.action][k][1] = 0
        /\ mdp.P[ret.state][ret.action][k][2] # ret.next_state

-----------------------------------------------------------------------------
(* the order of a sweep *)

\* the backup of the running loop: line 21 for policy_evaluation, line 36 for
\* value_iteration
LoopBackup(m, kind, pol, s, V) ==
    IF kind = "pe_for" THEN PolicyBackup(m, s, pol[s], V) ELSE BellmanBackup(m, s, V)

\* V after the states number k to upto were updated in place, in that order
RECURSIVE SweepPrefix(_, _, _, _, _, _)
SweepPrefix(m, kind, pol, V, k, upto) ==
    IF k > upto THEN V
    ELSE LET s == m.states[k]
         IN  SweepPrefix(m, kind, pol,
                         IF s \in m.terminal_states THEN V
                         ELSE [V EXCEPT ![s] = LoopBackup(m, kind, pol, s, V)],
                         k + 1, upto)

\* V after n full sweeps from zero
RECURSIVE AfterSweeps(_, _, _, _)
AfterSweeps(m, kind, pol, n) ==
    IF n = 0 THEN ZeroV(m)
    ELSE SweepPrefix(m, kind, pol, AfterSweeps(m, kind, pol, n - 1), 1, Len(m.states))

MaxOver(S) == IF S = {} THEN 0 ELSE CHOOSE x \in S : \A y \in S : y <= x

LoopPolicy == IF pc = "pe_for" THEN heap[polRef].val ELSE <<>>

\* V as it was when the running sweep began
SweepStart == AfterSweeps(mdp, pc, LoopPolicy, sweeps)

\* C18: within a sweep the states are visited in the order of self.states and
\* V is updated in place: V is, at every point of the sweep, the sweep-start V
\* with the states visited so far updated one after the other, each from the
\* V left by the updates before it; delta is the largest change so far
C18_InPlaceSweeps ==
    (InSweepLoop /\ NonEmpty(mdp) /\ SuccessorsKnown(mdp)) =>
        LET Before == SweepStart
            Now == SweepPrefix(mdp, pc, LoopPolicy, Before, 1, idx - 1)
        IN  /\ heap[Vref].val = Now
            /\ delta = MaxOver({Abs(Now[s] - Before[s]) : s \in Range(mdp.states)})

\* in a later sweep of policy_evaluation the second state was given a value
\* that differs from the one the sweep-start V alone would give it
C18_Witness ==
    /\ pc = "pe_for"
    /\ ValidModel(mdp)
    /\ sweeps >= 1
    /\ idx = 3
    /\ LET s == mdp.states[2]
       IN  /\ s \notin mdp.terminal_states
           /\ heap[Vref].val[s] # PolicyBackup(mdp, s, heap[polRef].val[s], SweepStart)

-----------------------------------------------------------------------------
(* the Q-table during q_learning *)

\* the Q rows of the terminal states hold 0
TerminalRowsZero ==
    Qref # 0 =>
        \A t \in mdp.terminal_states \cap DOMAIN heap[Qref].val :
            \A a \in DOMAIN heap[Qref].val[t] : heap[Qref].val[t][a] = 0

\* a step of the episode writes Q[state][action] for the non-terminal state it
\* left and nothing else
OneEntryWritten ==
    (pc = "ql_while" /\ qsteps' = qsteps + 1) =>
        /\ state \notin mdp.terminal_states
        /\ Qref' = Qref
        /\ \A s \in DOMAIN heap[Qref].val : \A a \in DOMAIN heap[Qref].val[s] :
            <<s, a>> # <<state, action'>> => heap'[Qref].val[s][a] = heap[Qref].val[s][a]
        /\ \A c \in Cells \ {Qref} : heap'[c] = heap[c]

\* C19: throughout q_learning the Q-values of terminal states are 0, and each
\* update writes the one entry Q(s, a) of the non-terminal state s it left
C19_TerminalRowsUntouched == []TerminalRowsZero /\ [][OneEntryWritten]_vars

\* an episode has reached a terminal state after an update that wrote a value
\* other than 0
C19_Witness ==
    /\ pc = "ql_while"
    /\ state \in mdp.terminal_states
    /\ action # None
    /\ \E s \in DOMAIN heap[Qref].val : heap[Qref].val[s][action] # 0

-----------------------------------------------------------------------------
(* what policy_iteration returns *)

\* one in-place sweep of expected returns under pol, from state number k on
RECURSIVE ReturnSweep(_, _, _, _)
ReturnSweep(m, pol, V, k) ==
    IF k > Len(m.states) THEN V
    ELSE LET s == m.states[k]
         IN  ReturnSweep(m, pol,
                         IF s \in m.terminal_states THEN V
                         ELSE [V EXCEPT ![s] = Lookahead(m, s, pol[s], V)],
                         k + 1)

\* sweeps repeated from V until one changes every value by less than theta
RECURSIVE EvaluatedFrom(_, _, _, _)
EvaluatedFrom(m, pol, V, n) ==
    LET W == ReturnSweep(m, pol, V, 1)
    IN  IF n = 0 \/ \A s \in Range(m.states) : Abs(W[s] - V[s]) < Theta
        THEN W ELSE EvaluatedFrom(m, pol, W, n - 1)

\* C20: the V policy_iteration returns is the evaluation of the policy it
\* returns, that policy is the last one it evaluated (the last improvement
\* round changed no entry), and each of its actions attains the largest
\* one-step lookahead under the returned V
C20_ReturnedPairConsistent ==
    ret.of = "policy_iteration" =>
        LET V == heap[ret.V].val
            policy == heap[ret.policy].val
        IN  /\ V = EvaluatedFrom(mdp, policy, ZeroV(mdp), MaxSweeps)
            /\ hist[Len(hist)] = [policy |-> policy, V |-> V]
            /\ \A s \in Range(NonTerminal(mdp)) : \A a \in Range(mdp.actions) :
                Lookahead(mdp, s, a, V) <= Lookahead(mdp, s, policy[s], V)

\* policy_iteration returned after two evaluations and more, with a policy
\* and a V that differ from those of the evaluation before
C20_Witness ==
    /\ ret.of = "policy_iteration"
    /\ ValidModel(mdp)
    /\ Len(hist) >= 2
    /\ hist[Len(hist) - 1].V # heap[ret.V].val
    /\ hist[Len(hist) - 1].policy # heap[ret.policy].val

\* the sweep cap stops no evaluation of a valid Model
-----------------------------------------------------------------------------
(* two results of policy_iteration on the same model *)

TwoPolicyIterations == kept.of = "policy_iteration" /\ ret.of = "policy_iteration"

\* C21 as claimed: two policy_iteration results on the same model, whatever
\* the random initial policies were, hold the same policy at every state
C21_InitialPolicyIrrelevant ==
    (ValidModel(mdp) /\ TwoPolicyIterations) =>
        \A s \in Range(mdp.states) :
            heap[kept.policy].val[s] = heap[ret.policy].val[s]

-----------------------------------------------------------------------------
(* FSM.trigger *)

\* the transition table's entry for (current_state, event) is a
\* (next_state, guard) pair
HasEntry(f, event) ==
    /\ f.current_state \in DOMAIN f.transitions
    /\ event \in DOMAIN f.transitions[f.current_state]
    /\ Len(f.transitions[f.current_state][event]) = 2

EntryOf(f, event) == f.transitions[f.current_state][event]

\* a step of trigger(event)
TriggerStep == fsm # NoFSM /\ lastTrigger'.event # None

\* the callbacks of calls are: on_exit of state old when it has one, called
\* while current_state is old, then on_enter of state new when it has one,
\* called while current_state is new
ExitThenEnter(f, calls, old, new) ==
    LET exits  == {k \in 1..Len(calls) : calls[k].type = "on_exit"}
        enters == {k \in 1..Len(calls) : calls[k].type = "on_enter"}
    IN  /\ exits \cup enters = 1..Len(calls)
        /\ Cardinality(exits) = IF old \in f.actions.on_exit THEN 1 ELSE 0
        /\ Cardinality(enters) = IF new \in f.actions.on_enter THEN 1 ELSE 0
        /\ \A k \in exits : calls[k].state = old /\ calls[k].saw = old
        /\ \A k \in enters : calls[k].state = new /\ calls[k].saw = new
        /\ \A j \in exits, k \in enters : j < k

\* C22: trigger(event) moves to the entry's next state exactly when the table
\* has an entry for (current_state, event) whose guard is None or returns
\* true, running on_exit of the old state before current_state is assigned
\* and on_enter of the new state after; otherwise current_state stays and no
\* callback runs
C22_TriggerFrame ==
    [][TriggerStep =>
        LET event == lastTrigger'.event
            old == fsm.current_state
        IN  IF HasEntry(fsm, event)
                /\ (EntryOf(fsm, event)[2] = None \/ lastTrigger'.guard = "true")
            THEN /\ fsm'.current_state = EntryOf(fsm, event)[1]
                 /\ ExitThenEnter(fsm, lastTrigger'.calls, old, fsm'.current_state)
            ELSE /\ fsm'.current_state = old
                 /\ lastTrigger'.calls = <<>>]_vars

\* a trigger whose guard returned true has run an on_exit and an on_enter
\* callback, of different states
C22_Witness ==
    /\ lastTrigger.event # None
    /\ lastTrigger.guard = "true"
    /\ Len(lastTrigger.calls) = 2
    /\ lastTrigger.calls[1].state # lastTrigger.calls[2].state

-----------------------------------------------------------------------------
(* Sequence.tick *)

\* a step of tick()
TickStep == bt # NoSequence /\ lastTick'.status # 0

Last(seq) == seq[Len(seq)]

\* after a tick that returned SUCCESS or FAILURE, self.current is 0
DoneAtZero == lastTick.status \in {SUCCESS, FAILURE} => bt.current = 0

\* a tick after one that returned RUNNING at child i starts at child i and
\* ticks no child before it; a tick after one that returned SUCCESS or
\* FAILURE starts at the first child
ResumesOrRestarts ==
    TickStep =>
        /\ lastTick.status = RUNNING =>
                /\ lastTick'.ticked[1] = Last(lastTick.ticked)
                /\ \A k \in 1..Len(lastTick'.ticked) :
                        lastTick'.ticked[k] >= Last(lastTick.ticked)
        /\ (lastTick.status \in {SUCCESS, FAILURE} /\ LenChildren(bt) > 0) =>
                lastTick'.ticked[1] = 0

\* C23: a Sequence whose tick returned RUNNING because child i did resumes
\* at child i on the next tick, without ticking children 0..i-1 again; when
\* a tick returns SUCCESS or FAILURE the current index is 0 and the next tick
\* starts from the first child
C23_SequenceResumes == []DoneAtZero /\ [][ResumesOrRestarts]_vars

\* a tick that started at a child after the first, where the tick before had
\* stopped, and went on to fail at a later child
C23_Witness ==
    /\ lastTick.status = FAILURE
    /\ Len(lastTick.ticked) > 1
    /\ lastTick.ticked[1] > 0
    /\ bt.current = 0

-----------------------------------------------------------------------------
(* StateTree.update *)

Ran(log, kind, n) == \E k \in 1..Len(log) : log[k] = Did(kind, n)

\* the last update triggered a transition and made its target current
Moved ==
    /\ stree.current_state # None
    /\ \E k \in 1..Len(lastUpdate) : lastUpdate[k].kind = "triggered"

\* C24: the update after one that triggered a transition to T runs the
\* tasks of T and evaluates the transitions of T, and runs T's on_enter only
\* after it has triggered a transition out of T
C24_UpdateRunsCurrentState ==
    [][(Moved /\ stree' # NoStateTree) =>
        LET T == stree.current_state
            log == lastUpdate'
        IN  /\ Ran(log, "task", T)
            /\ Ran(log, "evaluated", T)
            /\ \A k \in 1..Len(log) :
                    log[k] = Did("on_enter", T) =>
                        \E j \in 1..(k - 1) : log[j] = Did("triggered", T)]_vars

SweepCapUnused == ValidModel(mdp) => sweeps < MaxSweeps

=============================================================================
